---------------------------- MODULE Spec2Model ----------------------------
(***************************************************************************)
(* Model of the vectorized built-in function evaluator of the SQL VM       *)
(* (core/vm/sqlvm/runtime/functions.go).                                   *)
(*                                                                         *)
(* One action per catalog evaluator.  An action draws the Instruction's    *)
(* input operands and batch length from bounded sets, runs the evaluator   *)
(* to completion and records the outcome (result operand and error).  The  *)
(* only state that outlives a call is the execution context, of which the  *)
(* randomness-usage counter is the one mutable field.                      *)
(***************************************************************************)
EXTENDS Integers, Sequences, FiniteSets, TLC

VARIABLES
    ctx,      \* the execution context (common.Context) shared by all calls
    pc,       \* "idle": the host holds no result; "returned": a call has returned
    fnId,     \* identifier of the function of the last call ("none" when idle)
    in,       \* Instruction.Input of the last call: a sequence of Operands
    length,   \* batch length N of the last call
    out,      \* outcome of the last call: [err, nil, result]
    k0,       \* history: value of ctx.RandCallIndex when the execution began
    randLog,  \* history: every Raw produced by fnRand so far, in order
    notArg    \* history: <<x>> when the last call was bit-not applied to the
              \*          result of bit-not(x), <<>> otherwise

vars == <<ctx, pc, fnId, in, length, out, k0, randLog, notArg>>

-----------------------------------------------------------------------------
(* Bounds of the model *)

\* largest batch length N of an Instruction
MaxLen == 2
\* largest number of values fnRand may have produced in one execution
MaxRandValues == 4

-----------------------------------------------------------------------------
(* Bytes *)

Bit(x, i) == (x \div (2 ^ i)) % 2

\* the byte whose bit i is f[i]
FromBits(f) ==
    f[0] + 2 * f[1] + 4 * f[2] + 8 * f[3] + 16 * f[4] + 32 * f[5] + 64 * f[6] + 128 * f[7]

\* Go's b1 & b2, b1 | b2, b1 ^ b2 and ^b on the type byte
ByteAnd(b1, b2) == FromBits([i \in 0..7 |-> Bit(b1, i) * Bit(b2, i)])
ByteOr(b1, b2)  ==
    FromBits([i \in 0..7 |-> Bit(b1, i) + Bit(b2, i) - Bit(b1, i) * Bit(b2, i)])
ByteXor(b1, b2) == FromBits([i \in 0..7 |-> (Bit(b1, i) + Bit(b2, i)) % 2])
ByteNot(b)      == 255 - b

\* a bitBinFunc or bitUnFunc value is named by the operator it applies
bitBinFunc(bFn, b1, b2) ==
    CASE bFn = "&" -> ByteAnd(b1, b2)
      [] bFn = "|" -> ByteOr(b1, b2)
      [] bFn = "^" -> ByteXor(b1, b2)

bitUnFunc(bFn, b) == CASE bFn = "^" -> ByteNot(b)

Zeros(n) == [i \in 1..n |-> 0]

-----------------------------------------------------------------------------
(* Data types, Raw, Tuple, Operand *)

\* a data type is a major kind ("Uint", "Int", "Fixed", "FixedBytes", "Address",
\* "DynamicBytes") and a size parameter
ComposeDataType(major, minor) == [major |-> major, minor |-> minor]
DecomposeDataType(dType) == <<dType.major, dType.minor>>

\* a Raw holds a decimal Value and a byte slice Bytes; one of them is meaningful
Raw(v, b) == [Value |-> v, Bytes |-> b]
RawValue(v) == Raw(v, <<>>)
RawBytes(b) == Raw(0, b)

\* Raw.clone: a copy with its own backing storage
clone(r) == Raw(r.Value, r.Bytes)

Operand(imm, meta, data) == [IsImmediate |-> imm, Meta |-> meta, Data |-> data]

\* Operand.clone(metaOnly = true): the flag and the schema, no rows
OperandCloneMeta(op) == Operand(op.IsImmediate, op.Meta, <<>>)

\* the outcome of one evaluator call; a Go panic is the error "panic"
NoOperand == Operand(FALSE, <<>>, <<>>)
Ok(result) == [err |-> "nil", nil |-> FALSE, result |-> result]
Fail(e) == [err |-> e, nil |-> TRUE, result |-> NoOperand]
FailWith(e, result) == [err |-> e, nil |-> FALSE, result |-> result]
Panic == Fail("panic")

ErrorCodeInvalidOperandNum == "ErrorCodeInvalidOperandNum"
ErrorCodeInvalidDataType == "ErrorCodeInvalidDataType"
ErrorCodeIndexOutOfRange == "ErrorCodeIndexOutOfRange"
ErrorCodeDecimalToUint64 == "ErrorCodeDecimalToUint64"

-----------------------------------------------------------------------------
(* Decimal codec (ast.DecimalEncode, ast.DecimalDecode, ast.DecimalToUint64) *)

Pow256(n) == 256 ^ n

\* big-endian bytes of u, 0 <= u < 256^size
BigEndian(size, u) == [i \in 1..size |-> (u \div Pow256(size - i)) % 256]

RECURSIVE FromBigEndian(_)
FromBigEndian(bs) ==
    IF Len(bs) = 0 THEN 0
    ELSE 256 * FromBigEndian(SubSeq(bs, 1, Len(bs) - 1)) + bs[Len(bs)]

ByteSize(dType) == dType.minor + 1

Representable(dType, v) ==
    IF dType.major = "Uint"
    THEN 0 <= v /\ v < Pow256(ByteSize(dType))
    ELSE 2 * v >= -Pow256(ByteSize(dType)) /\ 2 * v < Pow256(ByteSize(dType))

\* two's complement, big-endian, minor+1 bytes; fails on an unrepresentable value
DecimalEncode(dType, v) ==
    IF Representable(dType, v)
    THEN [err |-> FALSE,
          bytes |-> BigEndian(ByteSize(dType),
                              IF v < 0 THEN v + Pow256(ByteSize(dType)) ELSE v)]
    ELSE [err |-> TRUE, bytes |-> <<>>]

DecimalDecode(dType, bytes) ==
    LET u == FromBigEndian(bytes)
    IN  IF dType.major /= "Uint" /\ Len(bytes) > 0 /\ bytes[1] >= 128
        THEN u - Pow256(Len(bytes))
        ELSE u

\* a decimal as uint64: fails on a negative value
DecimalToUint64(v) ==
    IF v < 0 THEN [err |-> ErrorCodeDecimalToUint64, value |-> 0]
    ELSE [err |-> "nil", value |-> v]

-----------------------------------------------------------------------------
(* Type-compatibility guards *)

\* variant: every fixed-width byte kind passes, the address kind included
metaBitOpWithAddress(dType) ==
    LET dMajor == DecomposeDataType(dType)[1]
    IN  dMajor \in {"Uint", "Int", "FixedBytes", "Address"}

metaBitOp(dType) ==
    LET dMajor == DecomposeDataType(dType)[1]
    IN  dMajor \in {"Uint", "Int", "FixedBytes"}

metaDynBytes(dType) ==
    LET dMajor == DecomposeDataType(dType)[1]
    IN  dMajor = "DynamicBytes"

metaAllEq(op1, op2) ==
    /\ Len(op1.Meta) = Len(op2.Meta)
    /\ \A i \in 1..Len(op1.Meta) : op1.Meta[i] = op2.Meta[i]

\* metaAll(op, metaBitOp)
metaAllBitOp(op) == \A i \in 1..Len(op.Meta) : metaBitOp(op.Meta[i])

\* metaAll(op, metaDynBytes)
metaAllDynBytes(op) == \A i \in 1..Len(op.Meta) : metaDynBytes(op.Meta[i])

\* the row count shared by the operands that are not immediate, 1 when all are
findMaxDataLength(ops) ==
    LET vec  == {i \in 1..Len(ops) : ~ops[i].IsImmediate}
        lens == {Len(ops[i].Data) : i \in vec}
    IN  IF vec = {} THEN [n |-> 1, err |-> "nil"]
        ELSE IF Cardinality(lens) > 1
             THEN [n |-> 0, err |-> "ErrorCodeDataLengthNotMatch"]
             ELSE [n |-> CHOOSE l \in lens : TRUE, err |-> "nil"]

extractOps(ops) ==
    IF Len(ops) < 2
    THEN [n |-> 0, err |-> ErrorCodeInvalidOperandNum]
    ELSE LET m == findMaxDataLength(ops)
         IN  IF m.err /= "nil"
             THEN [n |-> m.n, err |-> m.err]
             ELSE IF ~metaAllEq(ops[1], ops[2]) \/ ~metaAllBitOp(ops[1])
                  THEN [n |-> m.n, err |-> ErrorCodeInvalidDataType]
                  ELSE [n |-> m.n, err |-> "nil"]

-----------------------------------------------------------------------------
(* Value codec adapter: Raw.toBytes, Raw.fromBytes *)

\* [fault, bytes]: fault is the panic of the source
toBytes(r, dType) ==
    LET dMajor == DecomposeDataType(dType)[1]
    IN  IF dMajor \in {"FixedBytes", "Address", "DynamicBytes"}
        THEN [fault |-> FALSE, bytes |-> r.Bytes]
        ELSE IF dMajor \in {"Uint", "Int", "Fixed"}
        THEN LET e == DecimalEncode(dType, r.Value)
             IN  [fault |-> e.err, bytes |-> e.bytes]
        ELSE [fault |-> TRUE, bytes |-> <<>>]

\* [fault, raw]: the Raw that fromBytes fills in
fromBytes(bytes, dType) ==
    LET dMajor == DecomposeDataType(dType)[1]
    IN  IF dMajor \in {"FixedBytes", "Address", "DynamicBytes"}
        THEN [fault |-> FALSE, raw |-> RawBytes(bytes)]
        ELSE IF dMajor \in {"Uint", "Int", "Fixed"}
        THEN [fault |-> FALSE, raw |-> RawValue(DecimalDecode(dType, bytes))]
        ELSE [fault |-> TRUE, raw |-> RawValue(0)]

-----------------------------------------------------------------------------
(* Bitwise operators *)

RawBitBinOp(r, r2, dType, bFn) ==
    LET b1 == toBytes(r, dType)
        b2 == toBytes(r2, dType)
    IN  IF b1.fault \/ b2.fault \/ Len(b1.bytes) /= Len(b2.bytes)
        THEN [fault |-> TRUE, raw |-> RawValue(0)]
        ELSE fromBytes([i \in 1..Len(b1.bytes) |-> bitBinFunc(bFn, b1.bytes[i], b2.bytes[i])],
                       dType)

TupleBitBinOp(t, t2, meta, bFn) ==
    IF Len(t2) < Len(t) \/ Len(meta) < Len(t)
    THEN [fault |-> TRUE, tuple |-> <<>>]
    ELSE LET rs == [i \in 1..Len(t) |-> RawBitBinOp(t[i], t2[i], meta[i], bFn)]
         IN  [fault |-> \E i \in 1..Len(t) : rs[i].fault,
              tuple |-> [i \in 1..Len(t) |-> rs[i].raw]]

\* the body shared by fnBitAnd, fnBitOr and fnBitXor
bitBinRows(ops, bFn) ==
    LET e == extractOps(ops)
    IN  IF e.err /= "nil" THEN Fail(e.err)
        ELSE IF e.n > Len(ops[1].Data) \/ e.n > Len(ops[2].Data) THEN Panic
        ELSE LET ts == [i \in 1..e.n |->
                          TupleBitBinOp(ops[1].Data[i], ops[2].Data[i],
                                        ops[1].Meta, bFn)]
             IN  IF \E i \in 1..e.n : ts[i].fault THEN Panic
                 ELSE Ok([OperandCloneMeta(ops[1]) EXCEPT
                            !.Data = [i \in 1..e.n |-> ts[i].tuple]])

\* variant: the body of fnBitOr under the name of fnBitAnd
fnBitAndWithOr(c, input, len) == bitBinRows(input, "|")

fnBitAnd(c, input, len) == bitBinRows(input, "&")
fnBitOr(c, input, len)  == bitBinRows(input, "|")
fnBitXor(c, input, len) == bitBinRows(input, "^")

RawBitUnOp(r, dType, bFn) ==
    LET b == toBytes(r, dType)
    IN  IF b.fault THEN [fault |-> TRUE, raw |-> RawValue(0)]
        ELSE fromBytes([i \in 1..Len(b.bytes) |-> bitUnFunc(bFn, b.bytes[i])], dType)

TupleBitUnOp(t, meta, bFn) ==
    IF Len(meta) < Len(t)
    THEN [fault |-> TRUE, tuple |-> <<>>]
    ELSE LET rs == [i \in 1..Len(t) |-> RawBitUnOp(t[i], meta[i], bFn)]
         IN  [fault |-> \E i \in 1..Len(t) : rs[i].fault,
              tuple |-> [i \in 1..Len(t) |-> rs[i].raw]]

\* variant: the loop over the rows starts at the second row
fnBitNotFromSecondRow(c, input, len) ==
    IF Len(input) < 1 THEN Fail(ErrorCodeInvalidOperandNum)
    ELSE LET op == input[1]
         IN  IF ~metaAllBitOp(op) THEN Fail(ErrorCodeInvalidDataType)
             ELSE LET ts == [i \in 1..Len(op.Data) |->
                               TupleBitUnOp(op.Data[i], op.Meta, "^")]
                  IN  IF \E i \in 2..Len(op.Data) : ts[i].fault THEN Panic
                      ELSE Ok([OperandCloneMeta(op) EXCEPT
                                 !.Data = [i \in 1..Len(op.Data) |->
                                             IF i = 1 THEN <<>> ELSE ts[i].tuple]])

fnBitNot(c, input, len) ==
    IF Len(input) < 1 THEN Fail(ErrorCodeInvalidOperandNum)
    ELSE LET op == input[1]
         IN  IF ~metaAllBitOp(op) THEN Fail(ErrorCodeInvalidDataType)
             ELSE LET ts == [i \in 1..Len(op.Data) |->
                               TupleBitUnOp(op.Data[i], op.Meta, "^")]
                  IN  IF \E i \in 1..Len(op.Data) : ts[i].fault THEN Panic
                      ELSE Ok([OperandCloneMeta(op) EXCEPT
                                 !.Data = [i \in 1..Len(op.Data) |-> ts[i].tuple]])

-----------------------------------------------------------------------------
(* Byte-sequence utilities *)

fnOctetLength(c, input, len) ==
    IF Len(input) < 1 THEN Fail(ErrorCodeInvalidOperandNum)
    ELSE LET op == input[1]
         IN  IF ~metaAllDynBytes(op) THEN Fail(ErrorCodeInvalidDataType)
             ELSE Ok(Operand(FALSE,
                    [i \in 1..Len(op.Meta) |-> ComposeDataType("Uint", 32)],
                    [i \in 1..Len(op.Data) |->
                       [j \in 1..Len(op.Data[i]) |->
                          RawValue(Len(op.Data[i][j].Bytes))]]))

\* Operand.toUint64: the first column of every row as a uint64
toUint64(op) ==
    LET cs == [i \in 1..Len(op.Data) |-> DecimalToUint64(op.Data[i][1].Value)]
    IN  IF \E i \in 1..Len(op.Data) : cs[i].err /= "nil"
        THEN [err |-> ErrorCodeDecimalToUint64, values |-> <<>>]
        ELSE [err |-> "nil", values |-> [i \in 1..Len(op.Data) |-> cs[i].value]]

\* variant: the slice ends at the length instead of at start + length
SliceToLength(b, start, end) ==
    IF start > end - start \/ end - start > Len(b)
    THEN [fault |-> TRUE, bytes |-> <<>>]
    ELSE [fault |-> FALSE, bytes |-> SubSeq(b, start + 1, end - start)]

\* Go's b[start:end]: [fault, bytes]; out-of-range bounds panic
Slice(b, start, end) ==
    IF start > end \/ end > Len(b)
    THEN [fault |-> TRUE, bytes |-> <<>>]
    ELSE [fault |-> FALSE, bytes |-> SubSeq(b, start + 1, end)]

fnSubString(c, input, len) ==
    IF Len(input) < 3 THEN Fail(ErrorCodeInvalidOperandNum)
    ELSE
    LET op == input[1]
        \* line 507 sets err, and line 520 assigns err again before it is read
        err0 == IF ~metaAllDynBytes(op) THEN ErrorCodeInvalidDataType ELSE "nil"
        result == Operand(FALSE,
                          [i \in 1..Len(op.Meta) |-> ComposeDataType("DynamicBytes", 0)],
                          [i \in 1..Len(op.Data) |-> <<>>])
        starts == toUint64(input[2])
        err1 == IF starts.err = "nil" /\ Len(starts.values) /= 1
                THEN ErrorCodeIndexOutOfRange ELSE starts.err
        lens == toUint64(input[3])
        err2 == IF lens.err = "nil" /\ Len(lens.values) /= 1
                THEN ErrorCodeIndexOutOfRange ELSE lens.err
    IN  IF err1 /= "nil" THEN FailWith(err1, result)
        ELSE IF err2 /= "nil" THEN FailWith(err2, result)
        ELSE LET start == starts.values[1]
                 end == starts.values[1] + lens.values[1]
                 ss == [i \in 1..Len(op.Data) |->
                          [j \in 1..Len(op.Data[i]) |->
                             Slice(op.Data[i][j].Bytes, start, end)]]
             IN  IF \E i \in 1..Len(op.Data) :
                       \E j \in 1..Len(op.Data[i]) : ss[i][j].fault
                 THEN Panic
                 ELSE Ok([result EXCEPT !.Data =
                            [i \in 1..Len(op.Data) |->
                               [j \in 1..Len(op.Data[i]) |->
                                  RawBytes(ss[i][j].bytes)]]])

-----------------------------------------------------------------------------
(* Randomness function: the per-row generator *)

MaxVarintLen64 == 10

\* binary.PutUvarint(buf, x): writes the base-128 varint of x at the start of
\* buf and leaves the bytes after it as they were
RECURSIVE PutUvarintAt(_, _, _)
PutUvarintAt(buf, x, i) ==
    IF x >= 128
    THEN PutUvarintAt([buf EXCEPT ![i] = (x % 128) + 128], x \div 128, i + 1)
    ELSE [buf EXCEPT ![i] = x]

PutUvarint(buf, x) == PutUvarintAt(buf, x, 1)

\* crypto.Keccak256 over the four byte strings: a collision-free digest is a
\* term over its inputs; ast.DecimalDecode(uint256, digest) reads the digest as
\* a number, so the Value of the Raw stands for that term
Keccak256(randomness, origin, binaryOriginNonce, binaryUsedIndex) ==
    [keccak |-> <<randomness, origin, binaryOriginNonce, binaryUsedIndex>>]

\* variant: the counter is read but not advanced
randRowNoAdvance(c, binaryOriginNonce, st) ==
    LET buf == PutUvarint(st.binaryUsedIndex, st.RandCallIndex)
    IN  [raw |-> RawValue(Keccak256(c.Randomness, c.Origin, binaryOriginNonce, buf)),
         st  |-> [RandCallIndex |-> st.RandCallIndex, binaryUsedIndex |-> buf]]

\* the closure fn of fnRand: st holds ctx.RandCallIndex and the buffer
\* binaryUsedIndex that the closure writes on every call
randRow(c, binaryOriginNonce, st) ==
    LET buf == PutUvarint(st.binaryUsedIndex, st.RandCallIndex)
    IN  [raw |-> RawValue(Keccak256(c.Randomness, c.Origin, binaryOriginNonce, buf)),
         st  |-> [RandCallIndex |-> st.RandCallIndex + 1, binaryUsedIndex |-> buf]]

-----------------------------------------------------------------------------
(* Columnar container *)

\* one call of a generator: the method value r.clone of a fixed Raw, or the
\* closure of fnRand; st is the state the generator closes over and changes
callGen(fn, st) ==
    IF fn.kind = "clone"
    THEN [raw |-> clone(fn.r), st |-> st]
    ELSE randRow(fn.c, fn.binaryOriginNonce, st)

\* the loop of assignFuncResult: one row of one column per call of fn
RECURSIVE assignRows(_, _, _)
assignRows(fn, st, len) ==
    IF len = 0 THEN [rows |-> <<>>, st |-> st]
    ELSE LET g == callGen(fn, st)
             rest == assignRows(fn, g.st, len - 1)
         IN  [rows |-> <<(<<g.raw>>)>> \o rest.rows, st |-> rest.st]

\* [result, st]: the operand built and the generator's state after the loop
assignFuncResult(meta, fn, st, len) ==
    LET a == assignRows(fn, st, len)
    IN  [result |-> Operand(FALSE, meta, a.rows), st |-> a.st]

\* assignFuncResult(meta, r.clone, length)
broadcast(meta, r, len) ==
    assignFuncResult(meta, [kind |-> "clone", r |-> r], 0, len).result

-----------------------------------------------------------------------------
(* Block-hash window function *)

Dec257 == 257
HashLength == 32

\* ctx.GetHash(num64).Bytes(): the external lookup, a 32-byte digest that is
\* never all zero and differs from block to block
GetHash(num64) ==
    [i \in 1..HashLength |->
        IF i = 1 THEN 255
        ELSE IF i = HashLength THEN num64 % 256
        ELSE IF i = HashLength - 1 THEN (num64 \div 256) % 256
        ELSE 0]

\* variant: the window's lower end is inclusive
evalBlockHashInclusive(c, num, cur) ==
    LET cNum == cur - Dec257
    IN  IF num >= cNum /\ num < cur
        THEN LET n64 == DecimalToUint64(num)
             IN  IF n64.err /= "nil"
                 THEN [r |-> RawBytes(Zeros(HashLength)), err |-> n64.err]
                 ELSE [r |-> RawBytes(GetHash(n64.value)), err |-> "nil"]
        ELSE [r |-> RawBytes(Zeros(HashLength)), err |-> "nil"]

\* variant: the number is converted before the window is looked at
evalBlockHashConvertFirst(c, num, cur) ==
    LET cNum == cur - Dec257
        n64 == DecimalToUint64(num)
    IN  IF n64.err /= "nil"
        THEN [r |-> RawBytes(Zeros(HashLength)), err |-> n64.err]
        ELSE IF num > cNum /\ num < cur
             THEN [r |-> RawBytes(GetHash(n64.value)), err |-> "nil"]
             ELSE [r |-> RawBytes(Zeros(HashLength)), err |-> "nil"]

evalBlockHash(c, num, cur) ==
    LET cNum == cur - Dec257
    IN  IF num > cNum /\ num < cur
        THEN LET n64 == DecimalToUint64(num)
             IN  IF n64.err /= "nil"
                 THEN [r |-> RawBytes(Zeros(HashLength)), err |-> n64.err]
                 ELSE [r |-> RawBytes(GetHash(n64.value)), err |-> "nil"]
        ELSE [r |-> RawBytes(Zeros(HashLength)), err |-> "nil"]

fnBlockHash(c, input, len) ==
    IF Len(input) /= 1 THEN Fail(ErrorCodeInvalidOperandNum)
    ELSE
    LET meta == <<ComposeDataType("FixedBytes", 3)>>
        cNum == c.BlockNumber
        op == input[1]
    IN  IF op.IsImmediate
        THEN IF Len(op.Data) < 1 THEN Panic
             ELSE LET e == evalBlockHash(c, op.Data[1][1].Value, cNum)
                  IN  IF e.err /= "nil" THEN Fail(e.err)
                      ELSE Ok(broadcast(meta, e.r, len))
        ELSE IF Len(op.Data) < len THEN Panic
             ELSE LET es == [i \in 1..len |->
                               evalBlockHash(c, op.Data[i][1].Value, cNum)]
                      bad == {i \in 1..len : es[i].err /= "nil"}
                  IN  IF bad = {}
                      THEN Ok(Operand(FALSE, meta,
                                      [i \in 1..len |-> <<es[i].r>>]))
                      ELSE LET first == CHOOSE i \in bad : \A j \in bad : i <= j
                           IN  FailWith(es[first].err,
                                   Operand(FALSE, meta,
                                       [i \in 1..len |->
                                          IF i < first THEN <<es[i].r>> ELSE <<>>]))

-----------------------------------------------------------------------------
(* Environment accessors *)

fnBlockNumber(c, input, len) ==
    Ok(broadcast(<<ComposeDataType("Uint", 31)>>, RawValue(c.BlockNumber), len))

fnBlockTimestamp(c, input, len) ==
    Ok(broadcast(<<ComposeDataType("Uint", 31)>>, RawValue(c.Time), len))

fnBlockCoinBase(c, input, len) ==
    Ok(broadcast(<<ComposeDataType("Address", 0)>>, RawBytes(c.Coinbase), len))

fnBlockGasLimit(c, input, len) ==
    Ok(broadcast(<<ComposeDataType("Uint", 7)>>, RawValue(c.GasLimit), len))

fnMsgSender(c, input, len) ==
    Ok(broadcast(<<ComposeDataType("Address", 0)>>, RawBytes(c.CallerAddress), len))

fnMsgData(c, input, len) ==
    Ok(broadcast(<<ComposeDataType("DynamicBytes", 0)>>, RawBytes(c.Input), len))

fnTxOrigin(c, input, len) ==
    Ok(broadcast(<<ComposeDataType("Address", 0)>>, RawBytes(c.Origin), len))

-----------------------------------------------------------------------------
(* Randomness function: the evaluator *)

\* [out, RandCallIndex]: the outcome and the counter the call leaves in ctx
fnRand(c, input, len) ==
    LET binaryOriginNonce == PutUvarint(Zeros(MaxVarintLen64), c.OriginNonce)
        a == assignFuncResult(<<ComposeDataType("Uint", 31)>>,
                              [kind |-> "fnRand", c |-> c,
                               binaryOriginNonce |-> binaryOriginNonce],
                              [RandCallIndex |-> c.RandCallIndex,
                               binaryUsedIndex |-> Zeros(MaxVarintLen64)],
                              len)
    IN  [out |-> Ok(a.result), RandCallIndex |-> a.st.RandCallIndex]

-----------------------------------------------------------------------------
(* The inputs the host may hand to an evaluator.  Every operand is well      *)
(* formed: each row has one value per column of the schema, every value is   *)
(* representable in its column's type, an immediate operand holds one row    *)
(* and any other operand holds one row per batch element.                    *)

Uint8   == ComposeDataType("Uint", 0)
Int16   == ComposeDataType("Int", 1)
Int64   == ComposeDataType("Int", 7)
Uint64  == ComposeDataType("Uint", 7)
Bytes2  == ComposeDataType("FixedBytes", 1)
Address == ComposeDataType("Address", 0)
DynBytes == ComposeDataType("DynamicBytes", 0)
Fixed16 == ComposeDataType("Fixed", 1)

AddressBytes(b) == [i \in 1..20 |-> b]

\* "hello world" and "abc"
HelloWorld == <<104, 101, 108, 108, 111, 32, 119, 111, 114, 108, 100>>
Abc == <<97, 98, 99>>

\* the schemas of the model, each with the rows an operand of it may hold
Shapes ==
    { [meta |-> <<Uint8>>,  rows |-> {<<RawValue(10)>>, <<RawValue(12)>>}],
      [meta |-> <<Int16>>,  rows |-> {<<RawValue(-2)>>, <<RawValue(257)>>}],
      [meta |-> <<Bytes2>>, rows |-> {<<RawBytes(<<15, 240>>)>>,
                                      <<RawBytes(<<170, 1>>)>>}],
      [meta |-> <<DynBytes>>, rows |-> {<<RawBytes(HelloWorld)>>,
                                        <<RawBytes(Abc)>>}],
      [meta |-> <<Uint8, Int16>>, rows |-> {<<RawValue(255), RawValue(-32768)>>}],
      [meta |-> <<Address>>, rows |-> {<<RawBytes(AddressBytes(7))>>}],
      [meta |-> <<Fixed16>>, rows |-> {<<RawValue(5)>>}],
      [meta |-> <<Uint8, Address>>,
       rows |-> {<<RawValue(10), RawBytes(AddressBytes(7))>>}],
      [meta |-> <<DynBytes, DynBytes>>,
       rows |-> {<<RawBytes(HelloWorld), RawBytes(Abc)>>}],
      [meta |-> <<DynBytes, Uint8>>,
       rows |-> {<<RawBytes(Abc), RawValue(10)>>}] }

\* batch lengths, the longest first
Lengths == 0..MaxLen

Immediates ==
    UNION {{Operand(TRUE, s.meta, <<row>>) : row \in s.rows} : s \in Shapes}

Vectors(n) ==
    UNION {{Operand(FALSE, s.meta, rows) : rows \in [1..n -> s.rows]} : s \in Shapes}

\* the operands of an Instruction of batch length n
Operands(n) == Immediates \cup Vectors(n)

\* the operands used to pad or to cut a call to a wrong operand count
FewOperands ==
    { Operand(TRUE, <<Uint8>>, <<(<<RawValue(10)>>)>>),
      Operand(TRUE, <<DynBytes>>, <<(<<RawBytes(Abc)>>)>>) }

\* start and length operands of substring: one immediate value, or one value
\* per batch element
IndexOperands(n) ==
       {Operand(TRUE, <<Uint64>>, <<(<<RawValue(v)>>)>>) : v \in {0, 3, 5, 6}}
  \cup {Operand(TRUE, <<Int64>>, <<(<<RawValue(-1)>>)>>)}
  \cup {Operand(FALSE, <<Uint64>>, [i \in 1..n |-> <<RawValue(v)>>]) : v \in {0, 3}}

\* requested block numbers around the window of the current block
BlockNums(cur) == {cur - Dec257, cur - Dec257 + 1, cur - 1, cur, -3, -1000}

BlockNumOperands(cur, n) ==
       {Operand(TRUE, <<Int64>>, <<(<<RawValue(v)>>)>>) : v \in BlockNums(cur)}
  \cup {Operand(FALSE, <<Int64>>, [i \in 1..n |-> <<RawValue(f[i])>>]) :
            f \in [1..n -> BlockNums(cur)]}

BlockHashInputs(cur, n) ==
       {<<a>> : a \in BlockNumOperands(cur, n)}
  \cup {<<>>}
  \cup {<<a, a>> : a \in BlockNumOperands(cur, 0)}

UnaryInputs(n) ==
       {<<a>> : a \in Operands(n)}
  \cup {<<>>}
  \cup {<<a, b>> : a \in FewOperands, b \in FewOperands}

BinaryInputs(n) ==
       {<<a, b>> : a \in Operands(n), b \in Operands(n)}
  \cup {<<>>}
  \cup {<<a>> : a \in FewOperands}
  \cup {<<a, a, b>> : a \in FewOperands, b \in FewOperands}

SubStringInputs(n) ==
       {<<a, b, c>> : a \in Operands(n), b \in IndexOperands(n), c \in IndexOperands(n)}
  \cup {<<>>}
  \cup {<<a, b>> : a \in FewOperands, b \in IndexOperands(0)}
  \cup {<<a, b, b, a>> : a \in FewOperands, b \in IndexOperands(0)}

-----------------------------------------------------------------------------
(* The execution context and the calls *)

BlockNumbers == {5, 300}
StartIndices == {0, 126}

Init ==
    /\ \E cur \in BlockNumbers, k \in StartIndices :
         /\ ctx = [BlockNumber   |-> cur,
                   Time          |-> 1500000000,
                   Coinbase      |-> AddressBytes(1),
                   GasLimit      |-> 8000000,
                   CallerAddress |-> AddressBytes(2),
                   Input         |-> <<222, 173>>,
                   Origin        |-> AddressBytes(3),
                   OriginNonce   |-> 200,
                   Randomness    |-> <<9, 9, 9, 9>>,
                   RandCallIndex |-> k]
         /\ k0 = k
    /\ pc = "idle"
    /\ fnId = "none"
    /\ in = <<>>
    /\ length = 0
    /\ out = Fail("none")
    /\ randLog = <<>>
    /\ notArg = <<>>

\* one call of an evaluator that leaves the context alone
Call(id, input, len, o) ==
    /\ pc' = "returned"
    /\ fnId' = id
    /\ in' = input
    /\ length' = len
    /\ out' = o
    /\ notArg' = <<>>
    /\ UNCHANGED <<ctx, k0, randLog>>

CallBlockHash ==
    /\ pc = "idle"
    /\ \E d \in Lengths : LET len == MaxLen - d IN
            \E input \in BlockHashInputs(ctx.BlockNumber, len) :
            Call("BLOCKHASH", input, len, fnBlockHash(ctx, input, len))

CallBlockNumber ==
    /\ pc = "idle"
    /\ \E d \in Lengths : LET len == MaxLen - d IN
            Call("BLOCKNUMBER", <<>>, len, fnBlockNumber(ctx, <<>>, len))

CallBlockTimestamp ==
    /\ pc = "idle"
    /\ \E d \in Lengths : LET len == MaxLen - d IN
            Call("BLOCKTIMESTAMP", <<>>, len, fnBlockTimestamp(ctx, <<>>, len))

CallBlockCoinBase ==
    /\ pc = "idle"
    /\ \E d \in Lengths : LET len == MaxLen - d IN
            Call("BLOCKCOINBASE", <<>>, len, fnBlockCoinBase(ctx, <<>>, len))

CallBlockGasLimit ==
    /\ pc = "idle"
    /\ \E d \in Lengths : LET len == MaxLen - d IN
            Call("BLOCKGASLIMIT", <<>>, len, fnBlockGasLimit(ctx, <<>>, len))

CallMsgSender ==
    /\ pc = "idle"
    /\ \E d \in Lengths : LET len == MaxLen - d IN
            Call("MSGSENDER", <<>>, len, fnMsgSender(ctx, <<>>, len))

CallMsgData ==
    /\ pc = "idle"
    /\ \E d \in Lengths : LET len == MaxLen - d IN
            Call("MSGDATA", <<>>, len, fnMsgData(ctx, <<>>, len))

CallTxOrigin ==
    /\ pc = "idle"
    /\ \E d \in Lengths : LET len == MaxLen - d IN
            Call("TXORIGIN", <<>>, len, fnTxOrigin(ctx, <<>>, len))

\* NOW is bound to fnBlockTimestamp in fnTable
CallNow ==
    /\ pc = "idle"
    /\ \E d \in Lengths : LET len == MaxLen - d IN
            Call("NOW", <<>>, len, fnBlockTimestamp(ctx, <<>>, len))

CallRand ==
    /\ pc = "idle"
    /\ \E d \in Lengths : LET len == MaxLen - d IN
            /\ Len(randLog) + len <= MaxRandValues
            /\ LET r == fnRand(ctx, <<>>, len)
               IN  /\ pc' = "returned"
                   /\ fnId' = "RAND"
                   /\ in' = <<>>
                   /\ length' = len
                   /\ out' = r.out
                   /\ ctx' = [ctx EXCEPT !.RandCallIndex = r.RandCallIndex]
                   /\ randLog' = randLog \o
                         [i \in 1..Len(r.out.result.Data) |-> r.out.result.Data[i][1]]
                   /\ notArg' = <<>>
                   /\ UNCHANGED k0

CallBitAnd ==
    /\ pc = "idle"
    /\ \E d \in Lengths : LET len == MaxLen - d IN
            \E input \in BinaryInputs(len) :
            Call("BITAND", input, len, fnBitAnd(ctx, input, len))

CallBitOr ==
    /\ pc = "idle"
    /\ \E d \in Lengths : LET len == MaxLen - d IN
            \E input \in BinaryInputs(len) :
            Call("BITOR", input, len, fnBitOr(ctx, input, len))

CallBitXor ==
    /\ pc = "idle"
    /\ \E d \in Lengths : LET len == MaxLen - d IN
            \E input \in BinaryInputs(len) :
            Call("BITXOR", input, len, fnBitXor(ctx, input, len))

CallBitNot ==
    /\ pc = "idle"
    /\ \E d \in Lengths : LET len == MaxLen - d IN
            \E input \in UnaryInputs(len) :
            Call("BITNOT", input, len, fnBitNot(ctx, input, len))

\* the host owns a result and may feed it to the next call: bit-not of the
\* result of a successful bit-not
CallBitNotOfResult ==
    /\ pc = "returned"
    /\ fnId = "BITNOT"
    /\ out.err = "nil"
    /\ notArg = <<>>
    /\ pc' = "returned"
    /\ fnId' = "BITNOT"
    /\ in' = <<out.result>>
    /\ length' = length
    /\ out' = fnBitNot(ctx, <<out.result>>, length)
    /\ notArg' = <<in[1]>>
    /\ UNCHANGED <<ctx, k0, randLog>>

CallOctetLength ==
    /\ pc = "idle"
    /\ \E d \in Lengths : LET len == MaxLen - d IN
            \E input \in UnaryInputs(len) :
            Call("OCTETLENGTH", input, len, fnOctetLength(ctx, input, len))

CallSubString ==
    /\ pc = "idle"
    /\ \E d \in Lengths : LET len == MaxLen - d IN
            \E input \in SubStringInputs(len) :
            Call("SUBSTRING", input, len, fnSubString(ctx, input, len))

\* the call has returned: the host takes the result operand, which it owns
\* from here on; the evaluator keeps nothing of the call
Return ==
    /\ pc = "returned"
    /\ pc' = "idle"
    /\ fnId' = "none"
    /\ in' = <<>>
    /\ length' = 0
    /\ out' = Fail("none")
    /\ notArg' = <<>>
    /\ UNCHANGED <<ctx, k0, randLog>>

Next ==
    \/ CallBlockHash
    \/ CallBlockNumber
    \/ CallBlockTimestamp
    \/ CallBlockCoinBase
    \/ CallBlockGasLimit
    \/ CallMsgSender
    \/ CallMsgData
    \/ CallTxOrigin
    \/ CallNow
    \/ CallRand
    \/ CallBitAnd
    \/ CallBitOr
    \/ CallBitXor
    \/ CallBitNot
    \/ CallBitNotOfResult
    \/ CallOctetLength
    \/ CallSubString
    \/ Return

Spec == Init /\ [][Next]_vars

-----------------------------------------------------------------------------
(* Properties *)

Returned(id) == pc = "returned" /\ fnId = id

\* binary.Uvarint: the number a varint buffer holds
RECURSIVE UvarintAt(_, _)
UvarintAt(buf, i) ==
    IF buf[i] < 128 THEN buf[i]
    ELSE (buf[i] - 128) + 128 * UvarintAt(buf, i + 1)

Uvarint(buf) == UvarintAt(buf, 1)

\* C1: the counter equals its starting value k plus the number of random
\* values produced so far, whatever calls were made; the i-th value produced
\* is the digest of the seed, the origin, the origin's nonce and usage index
\* k+i-1, written into a fresh buffer (so a replay from the same k gives the
\* same sequence); no two values share a usage index.
C1_RandCounter ==
    /\ ctx.RandCallIndex = k0 + Len(randLog)
    /\ \A i \in 1..Len(randLog) :
         LET h == randLog[i].Value.keccak
         IN  /\ h[1] = ctx.Randomness
             /\ h[2] = ctx.Origin
             /\ Uvarint(h[3]) = ctx.OriginNonce
             /\ Uvarint(h[4]) = k0 + i - 1
             /\ randLog[i] =
                  RawValue(Keccak256(ctx.Randomness, ctx.Origin,
                                     PutUvarint(Zeros(MaxVarintLen64), ctx.OriginNonce),
                                     PutUvarint(Zeros(MaxVarintLen64), k0 + i - 1)))
    /\ \A i, j \in 1..Len(randLog) :
         i /= j => Uvarint(randLog[i].Value.keccak[4])
                       /= Uvarint(randLog[j].Value.keccak[4])
    /\ Returned("RAND") =>
         /\ out.err = "nil"
         /\ Len(out.result.Data) = length
         /\ \A i \in 1..length :
              out.result.Data[i] = <<randLog[Len(randLog) - length + i]>>

\* a failing call made after three random values were produced by more than
\* one call, the usage index having passed from one varint byte to two
C1_Witness ==
    /\ Returned("SUBSTRING")
    /\ out.err = ErrorCodeIndexOutOfRange
    /\ k0 = 126
    /\ Len(randLog) = 3

\* the block numbers a block-hash call evaluates: the single value of an
\* immediate operand, or one value per batch element
RequestedNums ==
    IF in[1].IsImmediate THEN {in[1].Data[1][1].Value}
    ELSE {in[1].Data[i][1].Value : i \in 1..length}

RequestedNum(i) ==
    IF in[1].IsImmediate THEN in[1].Data[1][1].Value ELSE in[1].Data[i][1].Value

InWindow(num) == ctx.BlockNumber - 257 < num /\ num < ctx.BlockNumber

WindowHash(num) == IF InWindow(num) THEN GetHash(num) ELSE Zeros(32)

\* C2 as claimed: every block-hash call with one operand succeeds and row i
\* holds the lookup's hash when cur-257 < num < cur and 32 zero bytes otherwise.
C2_EveryNumber ==
    (Returned("BLOCKHASH") /\ Len(in) = 1) =>
        /\ out.err = "nil"
        /\ Len(out.result.Data) = length
        /\ \A i \in 1..length :
             out.result.Data[i] = <<RawBytes(WindowHash(RequestedNum(i)))>>

\* C2 amended: when no requested number is both inside the window and
\* negative, the call succeeds with N rows, row i holding the lookup's hash
\* exactly when cur-257 < num < cur and 32 zero bytes otherwise (out of the
\* window is never an error); a negative number inside the window makes the
\* call fail with the conversion error.
C2_BlockHashWindow ==
    (Returned("BLOCKHASH") /\ Len(in) = 1) =>
        IF \E num \in RequestedNums : InWindow(num) /\ num < 0
        THEN out.err = ErrorCodeDecimalToUint64
        ELSE /\ out.err = "nil"
             /\ Len(out.result.Data) = length
             /\ \A i \in 1..length :
                  out.result.Data[i] = <<RawBytes(WindowHash(RequestedNum(i)))>>

\* a vector call at current block 300 whose rows ask for 43 (= cur-257) and
\* 44: the first row is zero, the second is the lookup's hash
C2_Witness ==
    /\ Returned("BLOCKHASH")
    /\ ctx.BlockNumber = 300
    /\ out.err = "nil"
    /\ Len(in) = 1 /\ ~in[1].IsImmediate /\ length = 2
    /\ in[1].Data[1][1].Value = 43 /\ in[1].Data[2][1].Value = 44
    /\ out.result.Data[1][1].Bytes = Zeros(32)
    /\ out.result.Data[2][1].Bytes = GetHash(44)

\* C6 as claimed: a block-hash call asking for a number that is no uint64
\* fails with an error, whatever the current block number.
C6_AlwaysFails ==
    (Returned("BLOCKHASH") /\ Len(in) = 1 /\ \E num \in RequestedNums : num < 0)
        => out.err /= "nil"

\* C6 amended: a block-hash call with one operand fails exactly when a
\* requested number is no uint64 and lies inside the window cur-257 < num <
\* cur; it then returns the conversion error and not a full result.  A number
\* that is no uint64 and lies outside the window gives 32 zero bytes.
C6_FailsInsideWindow ==
    (Returned("BLOCKHASH") /\ Len(in) = 1) =>
        /\ out.err /= "nil" <=> \E num \in RequestedNums : num < 0 /\ InWindow(num)
        /\ out.err /= "nil" =>
             /\ out.err = ErrorCodeDecimalToUint64
             /\ \/ out.nil
                \/ \E i \in 1..length : out.result.Data[i] = <<>>
        /\ \A i \in 1..length :
             (out.err = "nil" /\ RequestedNum(i) < 0) =>
                 out.result.Data[i][1].Bytes = Zeros(32)

\* at current block 5 the number -3 lies inside the window and the call fails
C6_Witness ==
    /\ Returned("BLOCKHASH")
    /\ ctx.BlockNumber = 5
    /\ Len(in) = 1 /\ in[1].IsImmediate
    /\ in[1].Data[1][1].Value = -3
    /\ out.err = ErrorCodeDecimalToUint64
    /\ out.nil

\* the operand count each function is specified to take
Arity(id) ==
    CASE id = "BLOCKHASH" -> 1
      [] id \in {"BITAND", "BITOR", "BITXOR"} -> 2
      [] id \in {"BITNOT", "OCTETLENGTH"} -> 1
      [] id = "SUBSTRING" -> 3

HasArity == {"BLOCKHASH", "BITAND", "BITOR", "BITXOR", "BITNOT", "OCTETLENGTH",
             "SUBSTRING"}

\* C3 as claimed: a call with fewer or with more operands than the function's
\* arity fails with invalid-operand-count and computes no result.
C3_OperandCount ==
    (pc = "returned" /\ fnId \in HasArity /\ Len(in) /= Arity(fnId)) =>
        /\ out.err = ErrorCodeInvalidOperandNum
        /\ out.nil

\* kinds whose value is a byte sequence, and kinds the bit operators accept
ByteKinds == {"FixedBytes", "Address", "DynamicBytes"}
BitKinds == {"Uint", "Int", "FixedBytes"}

Kinds(op) == {op.Meta[j].major : j \in 1..Len(op.Meta)}

\* the operand holds one value that is a uint64 in every row
OneUint64(op) == Len(op.Data) = 1 /\ op.Data[1][1].Value >= 0
AllUint64(op) == \A i \in 1..Len(op.Data) : op.Data[i][1].Value >= 0

\* C4 as claimed, in the case the claim singles out: substring with three
\* operands whose source has a column that is not byte-sequence-valued, and
\* whose start and length are one valid uint64 each, fails with
\* invalid-data-type and returns no sliced rows.
C4_SubStringSourceType ==
    (/\ Returned("SUBSTRING") /\ Len(in) = 3
     /\ ~(Kinds(in[1]) \subseteq ByteKinds)
     /\ OneUint64(in[2]) /\ OneUint64(in[3])) =>
        /\ out.err = ErrorCodeInvalidDataType
        /\ \A i \in 1..Len(out.result.Data) : out.result.Data[i] = <<>>

\* C5 as claimed: a successful evaluation returns exactly N rows, each with
\* one value per column of the result schema; a binary bitwise operator on
\* one scalar-marked and one N-row operand of the same bit-operable schema is
\* such an evaluation.
C5_RowCount ==
    /\ (pc = "returned" /\ out.err = "nil") =>
          /\ Len(out.result.Data) = length
          /\ \A i \in 1..Len(out.result.Data) :
               Len(out.result.Data[i]) = Len(out.result.Meta)
    /\ (/\ pc = "returned" /\ fnId \in {"BITAND", "BITOR", "BITXOR"}
        /\ Len(in) = 2
        /\ in[1].Meta = in[2].Meta /\ Kinds(in[1]) \subseteq BitKinds
        /\ in[1].IsImmediate /= in[2].IsImmediate) => out.err = "nil"

BinaryIds == {"BITAND", "BITOR", "BITXOR"}

\* C7: a binary bitwise call with two operands fails with invalid-data-type
\* whenever the schemas differ or a column is not an unsigned integer, a
\* signed integer or fixed-length bytes; bit-not with one operand fails with
\* invalid-data-type whenever a column is none of these; a call that does not
\* fail this way has only such columns.
C7_TypeErrors ==
    /\ (pc = "returned" /\ fnId \in BinaryIds /\ Len(in) = 2) =>
          /\ (\/ in[1].Meta /= in[2].Meta
              \/ ~(Kinds(in[1]) \cup Kinds(in[2]) \subseteq BitKinds))
                => (out.err = ErrorCodeInvalidDataType /\ out.nil)
          /\ out.err /= ErrorCodeInvalidDataType
                => (in[1].Meta = in[2].Meta /\ Kinds(in[1]) \subseteq BitKinds)
    /\ (Returned("BITNOT") /\ Len(in) = 1) =>
          /\ ~(Kinds(in[1]) \subseteq BitKinds)
                => (out.err = ErrorCodeInvalidDataType /\ out.nil)
          /\ out.err /= ErrorCodeInvalidDataType => Kinds(in[1]) \subseteq BitKinds

\* bit-xor of a two-column operand, one column an address, with itself
C7_Witness ==
    /\ Returned("BITXOR")
    /\ Len(in) = 2
    /\ in[1].Meta = in[2].Meta
    /\ Kinds(in[1]) = {"Uint", "Address"}
    /\ out.err = ErrorCodeInvalidDataType

\* the bytes of b at positions start up to but excluding start + n
Range(b, start, n) == [k \in 1..n |-> b[start + k]]

RECURSIVE NatBitOp(_, _, _)
NatBitOp(id, a, b) ==
    IF a = 0 /\ b = 0 THEN 0
    ELSE LET x == a % 2
             y == b % 2
             z == CASE id = "BITAND" -> IF x = 1 /\ y = 1 THEN 1 ELSE 0
                    [] id = "BITOR"  -> IF x = 1 \/ y = 1 THEN 1 ELSE 0
                    [] id = "BITXOR" -> IF x /= y THEN 1 ELSE 0
         IN  z + 2 * NatBitOp(id, a \div 2, b \div 2)

\* a value of an integer type as the natural its two's complement bits spell,
\* and back
Unsigned(dType, v) == IF v < 0 THEN v + 256 ^ (dType.minor + 1) ELSE v
Signed(dType, u) ==
    IF dType.major = "Int" /\ 2 * u >= 256 ^ (dType.minor + 1)
    THEN u - 256 ^ (dType.minor + 1)
    ELSE u

\* what a bitwise operator gives on two values of one bit-operable type
BitBinExpected(id, dType, r, r2) ==
    IF dType.major = "FixedBytes"
    THEN RawBytes([k \in 1..Len(r.Bytes) |-> NatBitOp(id, r.Bytes[k], r2.Bytes[k])])
    ELSE RawValue(Signed(dType, NatBitOp(id, Unsigned(dType, r.Value),
                                             Unsigned(dType, r2.Value))))

\* C9: on two operands of one all-bit-operable schema and equal row counts a
\* binary bitwise operator succeeds with the first operand's schema and, at
\* every row and column, the value whose encoding is the AND, OR or XOR of
\* the two inputs' encodings; on 8-bit unsigned 10 and 12 that is 8, 14 and 6.
C9_BitBinValues ==
    (/\ pc = "returned" /\ fnId \in BinaryIds /\ Len(in) = 2
     /\ in[1].Meta = in[2].Meta /\ Kinds(in[1]) \subseteq BitKinds
     /\ Len(in[1].Data) = Len(in[2].Data)) =>
        /\ out.err = "nil"
        /\ out.result.Meta = in[1].Meta
        /\ Len(out.result.Data) = Len(in[1].Data)
        /\ \A i \in 1..Len(in[1].Data) :
             /\ Len(out.result.Data[i]) = Len(in[1].Meta)
             /\ \A j \in 1..Len(in[1].Meta) :
                  out.result.Data[i][j] =
                      BitBinExpected(fnId, in[1].Meta[j],
                                     in[1].Data[i][j], in[2].Data[i][j])
        /\ (/\ in[1].Meta = <<Uint8>>
            /\ in[1].Data = <<(<<RawValue(10)>>)>>
            /\ in[2].Data = <<(<<RawValue(12)>>)>>) =>
              out.result.Data =
                  <<(<<RawValue(CASE fnId = "BITAND" -> 8
                                  [] fnId = "BITOR" -> 14
                                  [] fnId = "BITXOR" -> 6)>>)>>

\* bit-xor of two rows of 16-bit signed values, -2 and 257 against 257 and -2
C9_Witness ==
    /\ Returned("BITXOR")
    /\ out.err = "nil"
    /\ Len(in) = 2
    /\ in[1].Meta = <<Int16>>
    /\ in[1].Data = <<(<<RawValue(-2)>>), (<<RawValue(257)>>)>>
    /\ in[2].Data = <<(<<RawValue(257)>>), (<<RawValue(-2)>>)>>
    /\ out.result.Data = <<(<<RawValue(-257)>>), (<<RawValue(-257)>>)>>

\* what bit-not gives on a value of a bit-operable type: every bit flipped
BitNotExpected(dType, r) ==
    IF dType.major = "FixedBytes"
    THEN RawBytes([k \in 1..Len(r.Bytes) |-> 255 - r.Bytes[k]])
    ELSE IF dType.major = "Int"
    THEN RawValue(-1 - r.Value)
    ELSE RawValue(256 ^ (dType.minor + 1) - 1 - r.Value)

\* C10: bit-not of an operand x of bit-operable columns succeeds and flips
\* every bit of every value's encoding; bit-not of that result gives an
\* operand equal to x in schema and in every value.
C10_NotInvolution ==
    /\ (Returned("BITNOT") /\ Len(in) = 1 /\ Kinds(in[1]) \subseteq BitKinds) =>
          /\ out.err = "nil"
          /\ out.result.Meta = in[1].Meta
          /\ Len(out.result.Data) = Len(in[1].Data)
          /\ \A i \in 1..Len(in[1].Data) :
               /\ Len(out.result.Data[i]) = Len(in[1].Meta)
               /\ \A j \in 1..Len(in[1].Meta) :
                    out.result.Data[i][j] =
                        BitNotExpected(in[1].Meta[j], in[1].Data[i][j])
    /\ notArg /= <<>> =>
          /\ Returned("BITNOT")
          /\ out.err = "nil"
          /\ out.result.Meta = notArg[1].Meta
          /\ out.result.Data = notArg[1].Data

\* bit-not applied twice to two rows of an 8-bit unsigned and a 16-bit signed
\* column
C10_Witness ==
    /\ Returned("BITNOT")
    /\ notArg /= <<>>
    /\ out.err = "nil"
    /\ in[1].Data = <<(<<RawValue(0), RawValue(32767)>>),
                      (<<RawValue(0), RawValue(32767)>>)>>
    /\ out.result.Meta = <<Uint8, Int16>>
    /\ out.result.Data = <<(<<RawValue(255), RawValue(-32768)>>),
                           (<<RawValue(255), RawValue(-32768)>>)>>

=============================================================================
